---- MODULE Spec2Model ----
(***************************************************************************)
(* Model of the dns-server crate: the wire codec (header, names with       *)
(* compression pointers, questions, resource records, whole messages), the *)
(* Forwarder relay session and the receive loop of start_server.           *)
(*                                                                         *)
(* Bytes are integers 0..255, buffers are sequences of bytes (the code's   *)
(* 0-based index n is element n+1), strings are their UTF-8 bytes.         *)
(***************************************************************************)
EXTENDS Integers, Sequences, FiniteSets, TLC

VARIABLES
    buf,        \* start_server: the receive buffer [u8; 512]
    forwarder,  \* start_server: Option<Forwarder>
    resolver,   \* start_server: Option<SocketAddr> given on the command line
    status,     \* start_server: "running", or how the loop ended
    sent,       \* the datagram handed to send_to by the last iteration
    npackets,   \* number of datagrams received so far
    hist,       \* history of the current relay session (observation only)
    arg,        \* codec specifications: the input drawn by Init
    res         \* codec specifications: the output of the function applied

vars == <<buf, forwarder, resolver, status, sent, npackets, hist, arg, res>>

----------------------------------------------------------------------------
(* Bounds of the model *)

MaxQuestions == 2
MaxPackets == 3
MaxChain == 7
MaxPre == 2

----------------------------------------------------------------------------
(* Fixed-width integer helpers *)

Pow2(n) == 2 ^ n

RECURSIVE BitAnd(_, _, _)
BitAnd(a, b, w) ==
    IF w = 0 THEN 0
    ELSE (IF a % 2 = 1 /\ b % 2 = 1 THEN 1 ELSE 0)
         + 2 * BitAnd(a \div 2, b \div 2, w - 1)

RECURSIVE BitOr(_, _, _)
BitOr(a, b, w) ==
    IF w = 0 THEN 0
    ELSE (IF a % 2 = 1 \/ b % 2 = 1 THEN 1 ELSE 0)
         + 2 * BitOr(a \div 2, b \div 2, w - 1)

RECURSIVE BitXor(_, _, _)
BitXor(a, b, w) ==
    IF w = 0 THEN 0
    ELSE (IF a % 2 # b % 2 THEN 1 ELSE 0)
         + 2 * BitXor(a \div 2, b \div 2, w - 1)

Shl(a, n, w) == (a * Pow2(n)) % Pow2(w)
Shr(a, n) == a \div Pow2(n)

u16_to_be_bytes(v) == <<v \div 256, v % 256>>
u16_from_be_bytes(b) == b[1] * 256 + b[2]
(* A u32 is held as its 32-bit pattern: the values from 2^31 on are the *)
(* negative numbers v - 2^32, so that all four octets fit the integers   *)
(* of the model checker and the two conversions stay inverse.            *)
u32_to_be_bytes(v) ==
    <<(v \div 16777216) % 256, (v \div 65536) % 256, (v \div 256) % 256,
      v % 256>>
u32_from_be_bytes(b) ==
    (IF b[1] >= 128 THEN b[1] - 256 ELSE b[1]) * 16777216
    + b[2] * 65536 + b[3] * 256 + b[4]

BoolAsU8(b) == IF b THEN 1 ELSE 0

(* Result<T>: st is "ok", "err" (an anyhow error returned) or "panic" *)
Ok(v) == [st |-> "ok", err |-> "", val |-> v]
Err(e) == [st |-> "err", err |-> e, val |-> <<>>]
Panic(e) == [st |-> "panic", err |-> e, val |-> <<>>]

(* The ? operator: the value of an Ok result goes on to F, anything else is *)
(* returned as it is                                                        *)
Try(r, F(_)) == IF r.st = "ok" THEN F(r.val) ELSE r

(* Option<T> *)
None == [some |-> FALSE, v |-> <<>>]
Some(x) == [some |-> TRUE, v |-> x]

----------------------------------------------------------------------------
(* header.rs: enums and their conversions *)

MessageType_try_from(value) ==
    CASE value = 0 -> Ok("Query")
      [] value = 1 -> Ok("Response")
      [] OTHER -> Err("format")

MessageType_as_u8(t) == IF t = "Query" THEN 0 ELSE 1

(* try_from decoding the value 3 as the opcode of the value 2 *)
OpCode_try_from_folded(value) ==
    CASE value = 0 -> Ok("Query")
      [] value = 1 -> Ok("IQuery")
      [] value = 2 -> Ok("Status")
      [] value = 3 -> Ok("Status")
      [] OTHER -> Err("format")

OpCode_try_from(value) ==
    CASE value = 0 -> Ok("Query")
      [] value = 1 -> Ok("IQuery")
      [] value = 2 -> Ok("Status")
      [] value = 3 -> Ok("CodeCrafters")
      [] OTHER -> Err("format")

OpCode_as_u8(o) ==
    CASE o = "Query" -> 0
      [] o = "IQuery" -> 1
      [] o = "Status" -> 2
      [] o = "CodeCrafters" -> 3

ResponseCode_try_from(value) ==
    CASE value = 0 -> Ok("NoError")
      [] value = 1 -> Ok("FormatError")
      [] value = 2 -> Ok("ServerFailure")
      [] value = 3 -> Ok("NameError")
      [] value = 4 -> Ok("NotImplemented")
      [] value = 5 -> Ok("Refused")
      [] OTHER -> Err("format")

ResponseCode_as_u8(r) ==
    CASE r = "NoError" -> 0
      [] r = "FormatError" -> 1
      [] r = "ServerFailure" -> 2
      [] r = "NameError" -> 3
      [] r = "NotImplemented" -> 4
      [] r = "Refused" -> 5

Header_default ==
    [id |-> 0, message_type |-> "Query", op_code |-> "Query",
     auth_answer |-> FALSE, truncation |-> FALSE, recursion_desired |-> FALSE,
     recursion_available |-> FALSE, z |-> 0, response_code |-> "NoError",
     qd_count |-> 0, an_count |-> 0, ns_count |-> 0, ar_count |-> 0]

(* build_reply answering no-error whatever the opcode *)
Header_build_reply_noerror(self) ==
    [self EXCEPT !.message_type = "Response",
                 !.an_count = self.qd_count,
                 !.response_code = "NoError"]

Header_build_reply(self) ==
    [self EXCEPT !.message_type = "Response",
                 !.an_count = self.qd_count,
                 !.response_code = IF self.op_code = "Query" THEN "NoError"
                                   ELSE "NotImplemented"]

(* Header::from_bytes on the 12 header octets *)
Header_from_bytes(b) ==
    Try(MessageType_try_from(Shr(BitAnd(b[3], 128, 8), 7)), LAMBDA mt :
    Try(OpCode_try_from(Shr(BitAnd(b[3], 120, 8), 3)), LAMBDA op :
    Try(ResponseCode_try_from(BitAnd(b[4], 15, 8)), LAMBDA rc :
        Ok([id |-> u16_from_be_bytes(SubSeq(b, 1, 2)),
            message_type |-> mt,
            op_code |-> op,
            auth_answer |-> Shr(BitAnd(b[3], 4, 8), 2) # 0,
            truncation |-> Shr(BitAnd(b[3], 2, 8), 1) # 0,
            recursion_desired |-> BitAnd(b[3], 1, 8) # 0,
            recursion_available |-> Shr(BitAnd(b[4], 128, 8), 7) # 0,
            z |-> Shr(BitAnd(b[4], 112, 8), 4),
            response_code |-> rc,
            qd_count |-> u16_from_be_bytes(SubSeq(b, 5, 6)),
            an_count |-> u16_from_be_bytes(SubSeq(b, 7, 8)),
            ns_count |-> u16_from_be_bytes(SubSeq(b, 9, 10)),
            ar_count |-> u16_from_be_bytes(SubSeq(b, 11, 12))]))))

(* to_bytes writing the answer count before the question count *)
Header_to_bytes_swapped(self) ==
    u16_to_be_bytes(self.id)
    \o <<MessageType_as_u8(self.message_type) * 128 + OpCode_as_u8(self.op_code) * 8
           + BoolAsU8(self.auth_answer) * 4 + BoolAsU8(self.truncation) * 2
           + BoolAsU8(self.recursion_desired),
         BoolAsU8(self.recursion_available) * 128 + (self.z % 8) * 16
           + ResponseCode_as_u8(self.response_code)>>
    \o u16_to_be_bytes(self.an_count) \o u16_to_be_bytes(self.qd_count)
    \o u16_to_be_bytes(self.ns_count) \o u16_to_be_bytes(self.ar_count)

Header_to_bytes(self) ==
    LET bit_qr == MessageType_as_u8(self.message_type)
        bits_op == OpCode_as_u8(self.op_code)
        bit_aa == BoolAsU8(self.auth_answer)
        bit_tr == BoolAsU8(self.truncation)
        bit_rd == BoolAsU8(self.recursion_desired)
        byte2 == BitOr(BitOr(BitOr(BitOr(Shl(bit_qr, 7, 8), Shl(bits_op, 3, 8), 8),
                                   Shl(bit_aa, 2, 8), 8),
                             Shl(bit_tr, 1, 8), 8),
                       bit_rd, 8)
        bit_ra == BoolAsU8(self.recursion_available)
        bits_z == BitAnd(self.z, 7, 8)
        bits_rc == ResponseCode_as_u8(self.response_code)
        byte3 == BitOr(BitOr(Shl(bit_ra, 7, 8), Shl(bits_z, 4, 8), 8), bits_rc, 8)
    IN  u16_to_be_bytes(self.id) \o <<byte2, byte3>>
        \o u16_to_be_bytes(self.qd_count) \o u16_to_be_bytes(self.an_count)
        \o u16_to_be_bytes(self.ns_count) \o u16_to_be_bytes(self.ar_count)

----------------------------------------------------------------------------
(* message.rs: RawMessage, Class, Type, pointer, parse_labels *)

RawMessage_get(buffer, n) ==
    IF n < Len(buffer) THEN Ok(buffer[n + 1]) ELSE Err("format")

(* get_range(a..b): the bytes at 0-based offsets a..b-1 *)
RawMessage_get_range(buffer, a, b) ==
    IF a <= b /\ b <= Len(buffer) THEN Ok(SubSeq(buffer, a + 1, b))
    ELSE Err("format")

(* current_and_advance_range(n): val is [bytes, pos] with pos the new current_pos *)
RawMessage_current_and_advance_range(buffer, current_pos, n) ==
    IF current_pos + n > Len(buffer) THEN Err("format")
    ELSE Ok([bytes |-> SubSeq(buffer, current_pos + 1, current_pos + n),
             pos |-> current_pos + n])

ClassNames == <<"IN", "CS", "CH", "HS">>

Class_try_from(value) ==
    IF value \in 1..Len(ClassNames) THEN Ok(ClassNames[value]) ELSE Err("format")

Class_as_u16(c) == CHOOSE i \in 1..Len(ClassNames) : ClassNames[i] = c

TypeNames ==
    <<"A", "NS", "MD", "MF", "CName", "Soa", "MB", "MG", "MR", "Null", "Wks",
      "Ptr", "HInfo", "MInfo", "MX", "Txt">>

Type_try_from(value) ==
    IF value \in 1..Len(TypeNames) THEN Ok(TypeNames[value]) ELSE Err("format")

Type_as_u16(t) == CHOOSE i \in 1..Len(TypeNames) : TypeNames[i] = t

(* pointer(byte, next): Some(offset) when the pair is taken as a pointer *)
pointer(byte, next) ==
    IF byte # 192 THEN None
    ELSE Some(BitXor(BitOr(Shl(byte, 8, 16), next, 16), 49152, 16))

(* std::str::from_utf8 succeeds: s is well-formed UTF-8 *)
RECURSIVE from_utf8_ok(_)
from_utf8_ok(s) ==
    LET n == Len(s)
        cont(i) == i <= n /\ s[i] \in 128..191
        rest(k) == from_utf8_ok(SubSeq(s, k, n))
    IN  IF n = 0 THEN TRUE
        ELSE LET c == s[1] IN
          CASE c <= 127 -> rest(2)
            [] c \in 194..223 -> cont(2) /\ rest(3)
            [] c = 224 -> n >= 2 /\ s[2] \in 160..191 /\ cont(3) /\ rest(4)
            [] c \in 225..236 \/ c \in 238..239 -> cont(2) /\ cont(3) /\ rest(4)
            [] c = 237 -> n >= 2 /\ s[2] \in 128..159 /\ cont(3) /\ rest(4)
            [] c = 240 -> n >= 2 /\ s[2] \in 144..191 /\ cont(3) /\ cont(4) /\ rest(5)
            [] c \in 241..243 -> cont(2) /\ cont(3) /\ cont(4) /\ rest(5)
            [] c = 244 -> n >= 2 /\ s[2] \in 128..143 /\ cont(3) /\ cont(4) /\ rest(5)
            [] OTHER -> FALSE

(* labels.join(".") *)
RECURSIVE join(_)
join(labels) ==
    IF Len(labels) = 0 THEN <<>>
    ELSE IF Len(labels) = 1 THEN labels[1]
    ELSE labels[1] \o <<46>> \o join(Tail(labels))

(* name.split('.'): always at least one segment *)
RECURSIVE split(_)
split(name) ==
    IF \A i \in 1..Len(name) : name[i] # 46 THEN <<name>>
    ELSE LET i == CHOOSE k \in 1..Len(name) :
                      name[k] = 46 /\ \A j \in 1..(k - 1) : name[j] # 46
         IN  <<SubSeq(name, 1, i - 1)>> \o split(SubSeq(name, i + 1, Len(name)))

(* The loop of parse_labels with a jump counter that leaves the first       *)
(* pointer out                                                              *)
RECURSIVE parse_labels_loop_first_free(_, _, _, _, _)
parse_labels_loop_first_free(buffer, current, next_pointer, jumps, labels) ==
    LET len_byte == RawMessage_get(buffer, current) IN
    IF len_byte.st # "ok"
    THEN Ok([labels |-> labels, current |-> current, next_pointer |-> next_pointer])
    ELSE IF len_byte.val = 0
    THEN Ok([labels |-> labels, current |-> current + 1,
             next_pointer |-> next_pointer])
    ELSE LET next == RawMessage_get(buffer, current + 1) IN
         IF next.st # "ok" THEN Err("format")
         ELSE LET p == pointer(len_byte.val, next.val) IN
              IF p.some
              THEN IF ~next_pointer.some
                   THEN parse_labels_loop_first_free(buffer, p.v, Some(current + 2),
                                                     jumps, labels)
                   ELSE IF jumps + 1 > 5 THEN Err("loop")
                   ELSE parse_labels_loop_first_free(buffer, p.v, next_pointer,
                                                     jumps + 1, labels)
              ELSE LET label == RawMessage_get_range(buffer, current + 1,
                                                     current + 1 + len_byte.val)
                   IN  IF label.st # "ok" THEN Err("format")
                       ELSE IF ~from_utf8_ok(label.val) THEN Err("format")
                       ELSE parse_labels_loop_first_free(buffer,
                                current + 1 + len_byte.val, next_pointer, jumps,
                                Append(labels, label.val))

(* The while loop of parse_labels; val is [labels, current, next_pointer] *)
RECURSIVE parse_labels_loop(_, _, _, _, _)
parse_labels_loop(buffer, current, next_pointer, jumps, labels) ==
    LET len_byte == RawMessage_get(buffer, current) IN
    IF len_byte.st # "ok"
    THEN Ok([labels |-> labels, current |-> current, next_pointer |-> next_pointer])
    ELSE IF len_byte.val = 0
    THEN Ok([labels |-> labels, current |-> current + 1,
             next_pointer |-> next_pointer])
    ELSE LET next == RawMessage_get(buffer, current + 1) IN
         IF next.st # "ok" THEN Err("format")
         ELSE LET p == pointer(len_byte.val, next.val) IN
              IF p.some
              THEN LET np == IF jumps = 0 THEN Some(current + 2) ELSE next_pointer
                   IN  IF jumps + 1 > 5 THEN Err("loop")
                       ELSE parse_labels_loop(buffer, p.v, np, jumps + 1, labels)
              ELSE LET label == RawMessage_get_range(buffer, current + 1,
                                                     current + 1 + len_byte.val)
                   IN  IF label.st # "ok" THEN Err("format")
                       ELSE IF ~from_utf8_ok(label.val) THEN Err("format")
                       ELSE parse_labels_loop(buffer, current + 1 + len_byte.val,
                                              next_pointer, jumps,
                                              Append(labels, label.val))

(* parse_labels(bytes): val is [name, pos] with pos the new current_pos *)
parse_labels(buffer, current_pos) ==
    Try(parse_labels_loop(buffer, current_pos, None, 0, <<>>), LAMBDA r :
        Ok([name |-> join(r.labels),
            pos |-> IF r.next_pointer.some THEN r.next_pointer.v ELSE r.current]))

----------------------------------------------------------------------------
(* question.rs *)

(* The while loop of Question::from_bytes (the same loop, written out again) *)
RECURSIVE Question_labels_loop(_, _, _, _, _)
Question_labels_loop(buffer, current, next_pointer, jumps, labels) ==
    LET len_byte == RawMessage_get(buffer, current) IN
    IF len_byte.st # "ok"
    THEN Ok([labels |-> labels, current |-> current, next_pointer |-> next_pointer])
    ELSE IF len_byte.val = 0
    THEN Ok([labels |-> labels, current |-> current + 1,
             next_pointer |-> next_pointer])
    ELSE LET next == RawMessage_get(buffer, current + 1) IN
         IF next.st # "ok" THEN Err("format")
         ELSE LET p == pointer(len_byte.val, next.val) IN
              IF p.some
              THEN LET np == IF jumps = 0 THEN Some(current + 2) ELSE next_pointer
                   IN  IF jumps + 1 > 5 THEN Err("loop")
                       ELSE Question_labels_loop(buffer, p.v, np, jumps + 1, labels)
              ELSE LET label == RawMessage_get_range(buffer, current + 1,
                                                     current + 1 + len_byte.val)
                   IN  IF label.st # "ok" THEN Err("format")
                       ELSE IF ~from_utf8_ok(label.val) THEN Err("format")
                       ELSE Question_labels_loop(buffer, current + 1 + len_byte.val,
                                                 next_pointer, jumps,
                                                 Append(labels, label.val))

(* Lines 24-57 of Question::from_bytes: the name and the cursor after it *)
Question_parse_name(buffer, current_pos) ==
    Try(Question_labels_loop(buffer, current_pos, None, 0, <<>>), LAMBDA r :
        Ok([name |-> join(r.labels),
            pos |-> IF r.next_pointer.some THEN r.next_pointer.v ELSE r.current]))

(* Question::from_bytes: val is [q, pos] *)
Question_from_bytes(buffer, current_pos) ==
    Try(Question_parse_name(buffer, current_pos), LAMBDA nm :
    Try(RawMessage_current_and_advance_range(buffer, nm.pos, 2), LAMBDA b1 :
    Try(Type_try_from(u16_from_be_bytes(b1.bytes)), LAMBDA qtype :
    Try(RawMessage_current_and_advance_range(buffer, b1.pos, 2), LAMBDA b2 :
    Try(Class_try_from(u16_from_be_bytes(b2.bytes)), LAMBDA class :
        Ok([q |-> [name |-> nm.name, qtype |-> qtype, class |-> class],
            pos |-> b2.pos]))))))

(* The fold of Question::to_bytes over name.split('.') *)
RECURSIVE Question_fold_labels(_)
Question_fold_labels(segs) ==
    IF Len(segs) = 0 THEN <<>>
    ELSE <<Len(segs[1]) % 256>> \o segs[1] \o Question_fold_labels(Tail(segs))

Question_to_bytes(self) ==
    Question_fold_labels(split(self.name)) \o <<0>>
    \o u16_to_be_bytes(Type_as_u16(self.qtype))
    \o u16_to_be_bytes(Class_as_u16(self.class))

----------------------------------------------------------------------------
(* answer.rs *)

Data_None == [tag |-> "None", ip |-> <<>>]
Data_IP(ip) == [tag |-> "IP", ip |-> ip]

(* The DOMAINS table: name -> dotted-quad text *)
domains ==
    {[name |-> <<99, 111, 100, 101, 99, 114, 97, 102, 116, 101, 114, 115, 46, 105, 111>>, ip |-> <<56, 46, 56, 46, 56, 46, 56>>],
     [name |-> <<97, 110, 111, 116, 104, 101, 114, 46, 99, 111, 100, 101, 99, 114, 97, 102, 116, 101, 114, 115, 46, 105, 111>>, ip |-> <<49, 46, 49, 46, 49, 46, 49>>]}

(* A lookup that finds no name *)
domains_get_none(name) == None

domains_get(name) ==
    IF \E e \in domains : e.name = name
    THEN Some((CHOOSE e \in domains : e.name = name).ip)
    ELSE None

(* The value of a run of ASCII decimal digits *)
RECURSIVE parse_decimal(_)
parse_decimal(digits) ==
    IF Len(digits) = 0 THEN 0
    ELSE 10 * parse_decimal(SubSeq(digits, 1, Len(digits) - 1))
         + (digits[Len(digits)] - 48)

(* Ipv4Addr::from_str: four decimal octets separated by dots *)
Ipv4Addr_from_str(text) ==
    LET parts == split(text)
        octet_ok(part) ==
            /\ Len(part) \in 1..3
            /\ \A i \in 1..Len(part) : part[i] \in 48..57
            /\ (Len(part) > 1 => part[1] # 48)
            /\ parse_decimal(part) <= 255
    IN  IF Len(parts) = 4 /\ \A i \in 1..4 : octet_ok(parts[i])
        THEN Ok([i \in 1..4 |-> parse_decimal(parts[i])])
        ELSE Err("format")

(* ResourceRecord::answer_by_type: panics on every type but A *)
ResourceRecord_answer_by_type(qtype, name) ==
    IF qtype = "A"
    THEN LET found == domains_get(name)
             ip == IF found.some THEN Ipv4Addr_from_str(found.v)
                   ELSE Ok(<<8, 8, 8, 8>>)
         IN  IF ip.st # "ok" THEN Panic("expected correct ip")
             ELSE Ok([name |-> name, atype |-> qtype, class |-> "IN", ttl |-> 60,
                      length |-> 4, data |-> Data_IP(ip.val)])
    ELSE Panic("not implemented")

(* ResourceRecord::from_bytes: val is [rr, pos]; data[0..3] panics when the *)
(* declared length of an A record is below 4                               *)
ResourceRecord_from_bytes(buffer, current_pos) ==
    Try(parse_labels(buffer, current_pos), LAMBDA nm :
    Try(RawMessage_current_and_advance_range(buffer, nm.pos, 2), LAMBDA b1 :
    Try(Type_try_from(u16_from_be_bytes(b1.bytes)), LAMBDA atype :
    Try(RawMessage_current_and_advance_range(buffer, b1.pos, 2), LAMBDA b2 :
    Try(Class_try_from(u16_from_be_bytes(b2.bytes)), LAMBDA class :
    Try(RawMessage_current_and_advance_range(buffer, b2.pos, 4), LAMBDA b3 :
    Try(RawMessage_current_and_advance_range(buffer, b3.pos, 2), LAMBDA b4 :
    Try(RawMessage_current_and_advance_range(buffer, b4.pos,
                                             u16_from_be_bytes(b4.bytes)), LAMBDA data :
        IF atype = "A" /\ Len(data.bytes) < 4 THEN Panic("index out of bounds")
        ELSE Ok([rr |-> [name |-> nm.name, atype |-> atype, class |-> class,
                         ttl |-> u32_from_be_bytes(b3.bytes),
                         length |-> u16_from_be_bytes(b4.bytes),
                         data |-> IF atype = "A" THEN Data_IP(SubSeq(data.bytes, 1, 4))
                                  ELSE Data_None],
                 pos |-> data.pos])))))))))

(* The fold of ResourceRecord::to_bytes over name.split('.') *)
RECURSIVE ResourceRecord_fold_labels(_)
ResourceRecord_fold_labels(segs) ==
    IF Len(segs) = 0 THEN <<>>
    ELSE <<Len(segs[1]) % 256>> \o segs[1] \o ResourceRecord_fold_labels(Tail(segs))

ResourceRecord_to_bytes(self) ==
    ResourceRecord_fold_labels(split(self.name)) \o <<0>>
    \o u16_to_be_bytes(Type_as_u16(self.atype))
    \o u16_to_be_bytes(Class_as_u16(self.class))
    \o u32_to_be_bytes(self.ttl)
    \o u16_to_be_bytes(self.length)
    \o (IF self.data.tag = "IP" THEN self.data.ip ELSE <<>>)

----------------------------------------------------------------------------
(* message.rs: DNSMessage *)

DNSMessage_default == [header |-> Header_default, question |-> None, answer |-> None]

DNSMessage_answers(self) == self.header.an_count
DNSMessage_questions(self) == self.header.qd_count

(* The loop pushing n questions; val is [items, pos] *)
RECURSIVE read_questions(_, _, _, _)
read_questions(buffer, pos, n, items) ==
    IF n = 0 THEN Ok([items |-> items, pos |-> pos])
    ELSE Try(Question_from_bytes(buffer, pos), LAMBDA q :
             read_questions(buffer, q.pos, n - 1, Append(items, q.q)))

(* The loop pushing n answers; val is [items, pos] *)
RECURSIVE read_answers(_, _, _, _)
read_answers(buffer, pos, n, items) ==
    IF n = 0 THEN Ok([items |-> items, pos |-> pos])
    ELSE Try(ResourceRecord_from_bytes(buffer, pos), LAMBDA rr :
             read_answers(buffer, rr.pos, n - 1, Append(items, rr.rr)))

(* Option<Vec<T>> of a section: None when the header count is 0 *)
section(count, items) == IF count # 0 THEN Some(items) ELSE None

(* from_bytes reading the answers from the end of the header again *)
DNSMessage_from_bytes_restart(buffer) ==
    IF Len(buffer) < 12 THEN Err("format")
    ELSE Try(Header_from_bytes(SubSeq(buffer, 1, 12)), LAMBDA header :
         Try(read_questions(buffer, 12, header.qd_count, <<>>), LAMBDA qs :
         Try(read_answers(buffer, 12, header.an_count, <<>>), LAMBDA as :
             Ok([header |-> header,
                 question |-> section(header.qd_count, qs.items),
                 answer |-> section(header.an_count, as.items)]))))

DNSMessage_from_bytes(buffer) ==
    IF Len(buffer) < 12 THEN Err("format")
    ELSE Try(Header_from_bytes(SubSeq(buffer, 1, 12)), LAMBDA header :
         Try(read_questions(buffer, 12, header.qd_count, <<>>), LAMBDA qs :
         Try(read_answers(buffer, qs.pos, header.an_count, <<>>), LAMBDA as :
             Ok([header |-> header,
                 question |-> section(header.qd_count, qs.items),
                 answer |-> section(header.an_count, as.items)]))))

RECURSIVE concat_questions(_)
concat_questions(qs) ==
    IF Len(qs) = 0 THEN <<>>
    ELSE Question_to_bytes(qs[1]) \o concat_questions(Tail(qs))

RECURSIVE concat_answers(_)
concat_answers(rrs) ==
    IF Len(rrs) = 0 THEN <<>>
    ELSE ResourceRecord_to_bytes(rrs[1]) \o concat_answers(Tail(rrs))

DNSMessage_to_bytes(self) ==
    Header_to_bytes(self.header)
    \o (IF self.question.some THEN concat_questions(self.question.v) ELSE <<>>)
    \o (IF self.answer.some THEN concat_answers(self.answer.v) ELSE <<>>)

(* DNSMessage::add_answer. A header decoded from a 512-octet datagram has an *)
(* an_count far below 65535, so the u16 increment does not overflow.         *)
DNSMessage_add_answer(self, rr) ==
    [self EXCEPT !.header.an_count = self.header.an_count + 1,
                 !.answer = IF self.answer.some THEN Some(Append(self.answer.v, rr))
                            ELSE Some(<<rr>>)]

(* The for loop of DNSMessage::build_reply over the questions *)
RECURSIVE build_reply_answers(_, _)
build_reply_answers(reply, questions) ==
    IF Len(questions) = 0 THEN Ok(reply)
    ELSE Try(ResourceRecord_answer_by_type(questions[1].qtype, questions[1].name),
             LAMBDA rr : build_reply_answers(DNSMessage_add_answer(reply, rr),
                                             Tail(questions)))

DNSMessage_build_reply(self) ==
    Try(build_reply_answers(
            [DNSMessage_default EXCEPT !.header = Header_build_reply(self.header)],
            IF self.question.some THEN self.question.v ELSE <<>>),
        LAMBDA reply : Ok([reply EXCEPT !.question = self.question]))

----------------------------------------------------------------------------
(* lib.rs: Forwarder *)

(* What is handed to send_to: the message serialized and its bytes *)
Encoded(message) == [msg |-> message, bytes |-> DNSMessage_to_bytes(message)]

(* forward always asking the first question *)
Forwarder_forward_first(self) ==
    IF self.message.question.some
    THEN Ok(Encoded([header |-> [self.message.header EXCEPT !.qd_count = 1],
                     question |-> Some(<<self.message.question.v[1]>>),
                     answer |-> None]))
    ELSE Ok(Encoded([header |-> [self.message.header EXCEPT !.qd_count = 1],
                     question |-> None, answer |-> None]))

(* Forwarder::forward: val is the query built and its encoding; the expect *)
(* panics when the answer count is no index of the question list           *)
Forwarder_forward(self) ==
    IF self.message.question.some
    THEN IF DNSMessage_answers(self.message) < Len(self.message.question.v)
         THEN Ok(Encoded(
                [header |-> [self.message.header EXCEPT !.qd_count = 1],
                 question |-> Some(<<self.message.question.v[
                                        DNSMessage_answers(self.message) + 1]>>),
                 answer |-> None]))
         ELSE Panic("invalid questions lenght")
    ELSE Ok(Encoded([header |-> [self.message.header EXCEPT !.qd_count = 1],
                     question |-> None, answer |-> None]))

(* The session with its message replaced and the comparison add_answer      *)
(* returns made one answer too late                                         *)
Forwarder_push_late(self, message) ==
    [fw |-> [self EXCEPT !.message = message],
     complete |-> DNSMessage_questions(message) + 1 = DNSMessage_answers(message)]

(* The Some(ans) arm of Forwarder::add_answer *)
Forwarder_push(self, message) ==
    [fw |-> [self EXCEPT !.message = message],
     complete |-> DNSMessage_questions(message) = DNSMessage_answers(message)]

(* add_answer taking the last answer of the reply instead of the first *)
Forwarder_add_answer_last(self, buffer) ==
    Try(DNSMessage_from_bytes(buffer), LAMBDA reply :
        IF reply.answer.some
        THEN Ok(Forwarder_push(self, DNSMessage_add_answer(self.message,
                                         reply.answer.v[Len(reply.answer.v)])))
        ELSE Ok([fw |-> self, complete |-> TRUE]))

(* Forwarder::add_answer: val is [fw, complete], the session afterwards and *)
(* the boolean returned                                                     *)
Forwarder_add_answer(self, buffer) ==
    Try(DNSMessage_from_bytes(buffer), LAMBDA reply :
        IF reply.answer.some
        THEN Ok(Forwarder_push(self, DNSMessage_add_answer(self.message,
                                                           reply.answer.v[1])))
        ELSE Ok([fw |-> self, complete |-> TRUE]))

(* build_reply answering under id 0, the id of a header built afresh *)
Forwarder_build_reply_fresh(self) ==
    Encoded([self.message EXCEPT
               !.header = [Header_build_reply(self.message.header) EXCEPT !.id = 0]])

(* Forwarder::build_reply: the session's message with its header rebuilt, *)
(* and its encoding                                                       *)
Forwarder_build_reply(self) ==
    Encoded([self.message EXCEPT !.header = Header_build_reply(self.message.header)])

(* parse_and_reply: val is the reply and its encoding *)
parse_and_reply(buffer) ==
    Try(DNSMessage_from_bytes(buffer), LAMBDA message :
    Try(DNSMessage_build_reply(message), LAMBDA reply : Ok(Encoded(reply))))

create_forwarder(buffer, destination) ==
    Try(DNSMessage_from_bytes(buffer), LAMBDA request :
        Ok([destination |-> destination, message |-> request]))

----------------------------------------------------------------------------
(* Datagrams the model's clients and resolver send *)

BufSize == 512

ClientAddrs == {"client1", "client2"}
ResolverAddr == "resolver"
NoAddr == [some |-> FALSE, v |-> ""]

QuestionPool ==
    <<[name |-> <<97>>, qtype |-> "A", class |-> "IN"],
      [name |-> <<98, 46, 99>>, qtype |-> "A", class |-> "IN"],
      [name |-> <<100>>, qtype |-> "A", class |-> "CH"],
      [name |-> <<101, 46, 102>>, qtype |-> "A", class |-> "IN"]>>

(* The question lists of the requests: the first n questions of the pool *)
QuestionLists == {SubSeq(QuestionPool, 1, n) : n \in 0..MaxQuestions}

InputHeader(qr, op, qd, an) ==
    [Header_default EXCEPT !.id = 1234, !.message_type = qr, !.op_code = op,
                           !.recursion_desired = TRUE, !.qd_count = qd, !.an_count = an]

InputAnswer(name, atype, n) ==
    [name |-> name, atype |-> atype, class |-> "IN", ttl |-> 3600, length |-> 4,
     data |-> IF atype = "A" THEN Data_IP(<<76, 76, 21, n>>) ELSE Data_None]

(* Requests of 0..MaxQuestions address questions *)
PlainRequests ==
    {[header |-> InputHeader("Query", "Query", Len(qs), 0),
      question |-> IF Len(qs) = 0 THEN None ELSE Some(qs),
      answer |-> None] : qs \in QuestionLists}

(* Requests of another shape: an inverse query, a question of another type, *)
(* and requests that already carry an answer                                *)
OddRequests ==
    {[header |-> InputHeader("Query", "IQuery", 1, 0),
      question |-> Some(<<QuestionPool[1]>>), answer |-> None],
     [header |-> InputHeader("Query", "Query", 1, 0),
      question |-> Some(<<[QuestionPool[1] EXCEPT !.qtype = "CName"]>>),
      answer |-> None],
     [header |-> InputHeader("Query", "Query", 2, 1),
      question |-> Some(<<QuestionPool[1], QuestionPool[2]>>),
      answer |-> Some(<<InputAnswer(<<97>>, "A", 9)>>)],
     [header |-> InputHeader("Query", "Query", 1, 1),
      question |-> Some(<<QuestionPool[1]>>),
      answer |-> Some(<<InputAnswer(<<97>>, "A", 9)>>)]}

(* Upstream replies: one question and 0, 1 or 2 answers, one of them under  *)
(* another transaction id                                                   *)
UpstreamReplies ==
    {[header |-> InputHeader("Response", "Query", 1, n),
      question |-> Some(<<QuestionPool[1]>>),
      answer |-> IF n = 0 THEN None
                 ELSE Some([k \in 1..n |-> InputAnswer(QuestionPool[1].name, "A", 20 + k)])]
     : n \in 0..2}
    \cup
    {[header |-> InputHeader("Response", "Query", 1, 1),
      question |-> Some(<<QuestionPool[2]>>),
      answer |-> Some(<<InputAnswer(QuestionPool[2].name, "A", 30)>>)],
     [header |-> [InputHeader("Response", "Query", 1, 1) EXCEPT !.id = 4321],
      question |-> Some(<<QuestionPool[1]>>),
      answer |-> Some(<<InputAnswer(QuestionPool[1].name, "A", 40)>>)]}

(* Datagrams no decoder accepts: an opcode outside 0..3, a header whose     *)
(* answer count promises a record the datagram does not hold, and a         *)
(* datagram shorter than a header                                           *)
MalformedDatagrams ==
    {<<4, 210, 120, 0, 0, 0, 0, 0, 0, 0, 0, 0>>,
     <<4, 210, 1, 0, 0, 0, 0, 1, 0, 0, 0, 0, 0, 0, 0>>,
     <<4, 210, 1>>}

Datagrams ==
    {DNSMessage_to_bytes(m) : m \in PlainRequests \cup OddRequests \cup UpstreamReplies}
    \cup MalformedDatagrams

(* recv_from writes the datagram over the start of buf; the rest keeps what *)
(* earlier datagrams left there                                             *)
recv_from(buffer, datagram) ==
    [i \in 1..Len(buffer) |-> IF i <= Len(datagram) THEN datagram[i] ELSE buffer[i]]

----------------------------------------------------------------------------
(* main.rs: start_server *)

(* hist: the session's client and decoded request, the answer sections of   *)
(* the replies ingested, the packets sent for it, the last add_answer, and  *)
(* whether build_reply has closed the session                               *)
NewHist(client, orig, first) ==
    [client |-> client, orig |-> orig, replies |-> <<>>, out |-> <<first>>,
     last_add |-> None, closed |-> FALSE]

Packet(to, enc) == [to |-> to, msg |-> enc.msg, bytes |-> enc.bytes]

(* How the loop ends when a call returns Err (the ? returns from            *)
(* start_server) or panics                                                  *)
Fatal(r) == IF r.st = "panic" THEN "panic" ELSE "error"

Init ==
    /\ buf = [i \in 1..BufSize |-> 0]
    /\ forwarder = None
    /\ resolver \in {NoAddr, Some(ResolverAddr)}
    /\ status = "running"
    /\ sent = None
    /\ npackets = 0
    /\ hist = None
    /\ arg = <<>>
    /\ res = None

(* The iteration dies: nothing is sent, the session is as it was *)
Die(how) ==
    /\ status' = how
    /\ sent' = None
    /\ forwarder' = forwarder
    /\ hist' = IF hist.some THEN Some([hist.v EXCEPT !.last_add = None]) ELSE hist

(* send_to(packet) while a session is open: on success the loop goes on  *)
(* with the session fw and the history h, on failure the ? returns the error *)
Send(send_ok, packet, fw, h) ==
    IF send_ok
    THEN /\ status' = "running"
         /\ sent' = Some(packet)
         /\ forwarder' = fw
         /\ hist' = Some([h EXCEPT !.out = Append(@, packet)])
    ELSE Die("transport")

Ingested(added, decoded, source) ==
    [hist.v EXCEPT
       !.replies = Append(@, decoded.val.answer),
       !.last_add = Some([pre |-> forwarder.v, post |-> added.val.fw,
                          complete |-> added.val.complete, source |-> source,
                          id |-> decoded.val.header.id])]

(* false => { let req = fw.forward()?; send_to(&req, addr_resolver)?; } *)
Forwarded(query, fw, h, send_ok) ==
    IF query.st # "ok" THEN Die(Fatal(query))
    ELSE Send(send_ok, Packet(resolver.v, query.val), Some(fw), h)

(* The add_answer arm keeping the session after the final reply is sent *)
Advanced_kept(added, decoded, source, send_ok) ==
    IF added.st # "ok" THEN Die(Fatal(added))
    ELSE IF added.val.complete
    THEN Send(send_ok,
              Packet(added.val.fw.destination, Forwarder_build_reply(added.val.fw)),
              Some(added.val.fw),
              [Ingested(added, decoded, source) EXCEPT !.closed = TRUE])
    ELSE Forwarded(Forwarder_forward(added.val.fw), added.val.fw,
                   Ingested(added, decoded, source), send_ok)

(* match fw.add_answer(&buf)? { true => ..., false => ... } *)
Advanced(added, decoded, source, send_ok) ==
    IF added.st # "ok" THEN Die(Fatal(added))
    ELSE IF added.val.complete
    THEN Send(send_ok,
              Packet(added.val.fw.destination, Forwarder_build_reply(added.val.fw)),
              None, [Ingested(added, decoded, source) EXCEPT !.closed = TRUE])
    ELSE Forwarded(Forwarder_forward(added.val.fw), added.val.fw,
                   Ingested(added, decoded, source), send_ok)

Ingest(nbuf, source, send_ok) ==
    /\ buf' = nbuf
    /\ npackets' = npackets + 1
    /\ UNCHANGED <<resolver, arg, res>>
    /\ Advanced(Forwarder_add_answer(forwarder.v, nbuf), DNSMessage_from_bytes(nbuf),
                source, send_ok)

(* One iteration with a resolver configured and a session open: the packet, *)
(* whatever its source, goes to add_answer, then the final reply or the     *)
(* next query is sent                                                       *)
RecvAdvance ==
    /\ status = "running" /\ npackets < MaxPackets
    /\ resolver.some /\ forwarder.some
    /\ \E d \in Datagrams, source \in ClientAddrs \cup {ResolverAddr},
          send_ok \in BOOLEAN :
            Ingest(recv_from(buf, d), source, send_ok)

FirstForwarded(query, fw, source, send_ok) ==
    IF query.st # "ok" THEN Die(Fatal(query))
    ELSE IF send_ok
    THEN /\ status' = "running"
         /\ sent' = Some(Packet(resolver.v, query.val))
         /\ forwarder' = Some(fw)
         /\ hist' = Some(NewHist(source, fw.message, Packet(resolver.v, query.val)))
    ELSE Die("transport")

Created(fw, source, send_ok) ==
    IF fw.st # "ok" THEN Die(Fatal(fw))
    ELSE FirstForwarded(Forwarder_forward(fw.val), fw.val, source, send_ok)

Create(nbuf, source, send_ok) ==
    /\ buf' = nbuf
    /\ npackets' = npackets + 1
    /\ UNCHANGED <<resolver, arg, res>>
    /\ Created(create_forwarder(nbuf, source), source, send_ok)

(* One iteration with a resolver configured and no session: create_forwarder, *)
(* then the first query is sent                                               *)
RecvCreate ==
    /\ status = "running" /\ npackets < MaxPackets
    /\ resolver.some /\ ~forwarder.some
    /\ \E d \in Datagrams, source \in ClientAddrs \cup {ResolverAddr},
          send_ok \in BOOLEAN :
            Create(recv_from(buf, d), source, send_ok)

Replied(response, source, send_ok) ==
    IF response.st # "ok" THEN Die(Fatal(response))
    ELSE IF send_ok
    THEN /\ status' = "running"
         /\ sent' = Some(Packet(source, response.val))
         /\ UNCHANGED <<forwarder, hist>>
    ELSE Die("transport")

Reply(nbuf, source, send_ok) ==
    /\ buf' = nbuf
    /\ npackets' = npackets + 1
    /\ UNCHANGED <<resolver, arg, res>>
    /\ Replied(parse_and_reply(nbuf), source, send_ok)

(* One iteration without a resolver: parse_and_reply, sent back to the source *)
RecvLocal ==
    /\ status = "running" /\ npackets < MaxPackets
    /\ ~resolver.some
    /\ \E d \in Datagrams, source \in ClientAddrs, send_ok \in BOOLEAN :
            Reply(recv_from(buf, d), source, send_ok)

(* recv_from fails: the loop breaks and start_server returns Ok *)
RecvError ==
    /\ status = "running"
    /\ status' = "stopped"
    /\ sent' = None
    /\ UNCHANGED <<buf, forwarder, resolver, npackets, hist, arg, res>>

Next == RecvAdvance \/ RecvCreate \/ RecvLocal \/ RecvError

Spec == Init /\ [][Next]_vars

----------------------------------------------------------------------------
(* The codec functions applied to inputs drawn by Init.  The server's       *)
(* variables stay idle; status is "input" before the function is applied    *)
(* and "done" after.                                                        *)

CodecIdle ==
    /\ buf = <<>>
    /\ forwarder = None
    /\ resolver = NoAddr
    /\ sent = None
    /\ npackets = 0
    /\ hist = None

CodecStep ==
    /\ status = "input"
    /\ status' = "done"
    /\ UNCHANGED <<buf, forwarder, resolver, sent, npackets, hist, arg>>

(* pointer on every pair of octets *)
PointerInit ==
    /\ CodecIdle
    /\ status = "input"
    /\ arg \in (0..255) \X (0..255)
    /\ res = None

ApplyPointer ==
    /\ CodecStep
    /\ res' = pointer(arg[1], arg[2])

SpecPointer == PointerInit /\ [][ApplyPointer]_vars

(* Header::to_bytes and Header::from_bytes on header values: every          *)
(* combination of the enumerations and flags, z up to the first value that  *)
(* does not fit its three bits, and a choice of 16-bit values               *)
ZValues == 0..8

U16Samples == {0, 4660, 65535}

CountSamples == {<<0, 0, 0, 0>>, <<1, 2, 3, 4>>, <<255, 256, 4660, 65535>>}

HeaderValues ==
    {[id |-> id, message_type |-> mt, op_code |-> op,
      auth_answer |-> f[1], truncation |-> f[2], recursion_desired |-> f[3],
      recursion_available |-> f[4], z |-> z, response_code |-> rc,
      qd_count |-> c[1], an_count |-> c[2], ns_count |-> c[3], ar_count |-> c[4]]
     : id \in U16Samples, mt \in {"Query", "Response"},
       op \in {"Query", "IQuery", "Status", "CodeCrafters"},
       f \in [1..4 -> BOOLEAN], z \in ZValues,
       rc \in {"NoError", "FormatError", "ServerFailure", "NameError",
               "NotImplemented", "Refused"},
       c \in CountSamples}

HeaderInit ==
    /\ CodecIdle
    /\ status = "input"
    /\ arg \in HeaderValues
    /\ res = None

RoundTripHeader ==
    /\ CodecStep
    /\ res' = [bytes |-> Header_to_bytes(arg),
               back |-> Header_from_bytes(Header_to_bytes(arg))]

SpecHeader == HeaderInit /\ [][RoundTripHeader]_vars

(* Names on the wire: a head of h labels at the start offset, then, through *)
(* n pointers, n further blocks; a block between has m labels and a pointer *)
(* to the next, the last has t labels and the end.  The end is a zero       *)
(* octet ("zero"), the end of the buffer ("open"), a pointer past the end   *)
(* of the buffer ("outside") or a pointer back into the chain ("cycle").    *)
(* The fields of a record follow the head.  "fwd" lays the blocks out after *)
(* the head, "bwd" before it; pad octets precede everything, so that pad    *)
(* 260 puts every pointer target past offset 255.                           *)
Pads == {0, 12, 260}

Endings == {"zero", "open", "outside", "cycle"}

NameInputs ==
    {a \in [n : 0..MaxChain, h : 0..MaxPre, m : 0..1, t : 0..1,
            ending : Endings, layout : {"fwd", "bwd"}, pad : Pads] :
        a.ending = "open" => a.layout = "fwd"}

(* type A, class IN, ttl 60, length 4 and four octets of data *)
RecordFields == <<0, 1, 0, 1, 0, 0, 0, 60, 0, 4, 1, 2, 3, 4>>

BlockLabels(a, i) ==
    IF i = 0 THEN [j \in 1..a.h |-> <<96 + j>>]
    ELSE IF i < a.n THEN [j \in 1..a.m |-> <<104 + i>>]
    ELSE [j \in 1..a.t |-> <<120, 121>>]

RECURSIVE EncodeLabels(_)
EncodeLabels(labels) ==
    IF Len(labels) = 0 THEN <<>>
    ELSE <<Len(labels[1])>> \o labels[1] \o EncodeLabels(Tail(labels))

LinkSize(a, i) ==
    IF i < a.n THEN 2
    ELSE CASE a.ending = "zero" -> 1
           [] a.ending = "open" -> 0
           [] OTHER -> 2

BlockSize(a, i) == Len(EncodeLabels(BlockLabels(a, i))) + LinkSize(a, i)

RECURSIVE BlocksSize(_, _, _)
BlocksSize(a, i, j) == IF i > j THEN 0 ELSE BlockSize(a, i) + BlocksSize(a, i + 1, j)

FieldsSize(a) == IF a.ending = "open" /\ a.n = 0 THEN 0 ELSE Len(RecordFields)

BufferSize(a) == a.pad + FieldsSize(a) + BlocksSize(a, 0, a.n)

(* The offset of block i in the buffer *)
Offset(a, i) ==
    IF a.layout = "fwd"
    THEN a.pad + (IF i = 0 THEN 0
                  ELSE BlockSize(a, 0) + FieldsSize(a) + BlocksSize(a, 1, i - 1))
    ELSE a.pad + BlocksSize(a, i + 1, a.n)

(* A pointer as the wire format writes it: 11 and the 14 bits of the offset *)
PointerTo(offset) == <<192 + offset \div 256, offset % 256>>

Link(a, i) ==
    IF i < a.n THEN PointerTo(Offset(a, i + 1))
    ELSE CASE a.ending = "zero" -> <<0>>
           [] a.ending = "open" -> <<>>
           [] a.ending = "outside" -> PointerTo(BufferSize(a))
           [] a.ending = "cycle" -> PointerTo(Offset(a, IF a.n = 0 THEN 0 ELSE 1))

Block(a, i) == EncodeLabels(BlockLabels(a, i)) \o Link(a, i)

RECURSIVE BlocksUp(_, _, _)
BlocksUp(a, i, j) == IF i > j THEN <<>> ELSE Block(a, i) \o BlocksUp(a, i + 1, j)

RECURSIVE BlocksDown(_, _, _)
BlocksDown(a, i, j) == IF i < j THEN <<>> ELSE Block(a, i) \o BlocksDown(a, i - 1, j)

Fields(a) == SubSeq(RecordFields, 1, FieldsSize(a))

NameBuffer(a) ==
    [k \in 1..a.pad |-> 0]
    \o (IF a.layout = "fwd"
        THEN Block(a, 0) \o Fields(a) \o BlocksUp(a, 1, a.n)
        ELSE BlocksDown(a, a.n, 0) \o Fields(a))

NameInit ==
    /\ CodecIdle
    /\ status = "input"
    /\ arg \in NameInputs
    /\ res = None

(* The two name loops and the two decoders built on them, each from the    *)
(* head of the name                                                         *)
DecodeName ==
    /\ CodecStep
    /\ res' = [buffer |-> NameBuffer(arg),
               start |-> Offset(arg, 0),
               labels |-> parse_labels(NameBuffer(arg), Offset(arg, 0)),
               qname |-> Question_parse_name(NameBuffer(arg), Offset(arg, 0)),
               question |-> Question_from_bytes(NameBuffer(arg), Offset(arg, 0)),
               record |-> ResourceRecord_from_bytes(NameBuffer(arg), Offset(arg, 0))]

SpecName == NameInit /\ [][DecodeName]_vars

----------------------------------------------------------------------------
(* Properties of the server                                                 *)

(* The number of items an Option<Vec<T>> serializes *)
Count(opt) == IF opt.some THEN Len(opt.v) ELSE 0

(* The header a packet carries on the wire *)
WireHeader(packet) == Header_from_bytes(SubSeq(packet.bytes, 1, 12)).val

(* A session opened by a client's request of one or more questions and no *)
(* answer                                                                 *)
PlainSession ==
    /\ hist.some
    /\ hist.v.client \in ClientAddrs
    /\ hist.v.orig.header.an_count = 0
    /\ Count(hist.v.orig.question) >= 1

(* The i-th packet of the session is an upstream query, not the final reply *)
IsQuery(i) == i < Len(hist.v.out) \/ ~hist.v.closed

FinalReply == hist.v.out[Len(hist.v.out)]

(* C1: without a resolver, the reply to a decodable request of N questions   *)
(* has a header answer count equal to the number of answer records added to *)
(* it, which is N                                                           *)
C1_LocalAnswerCount ==
    (~resolver.some /\ sent.some) =>
        /\ Count(sent.v.msg.answer) = Count(sent.v.msg.question)
        /\ sent.v.msg.header.an_count = Count(sent.v.msg.answer)
        /\ WireHeader(sent.v).an_count = Count(sent.v.msg.answer)

(* C2: a request of N >= 1 questions and answer count 0, every upstream     *)
(* reply carrying an answer: after k replies are ingested exactly k + 1     *)
(* queries have been sent while k < N, the i-th asking exactly the i-th     *)
(* original question of the resolver; the session closes exactly at k = N   *)
(* with one final reply, to the client, whose answer count is N             *)
C2_SequentialQueries ==
    (PlainSession /\ \A i \in 1..Len(hist.v.replies) : hist.v.replies[i].some) =>
        /\ Len(hist.v.replies) <= Len(hist.v.orig.question.v)
        /\ hist.v.closed <=> Len(hist.v.replies) = Len(hist.v.orig.question.v)
        /\ hist.v.closed <=> ~forwarder.some
        /\ Len(hist.v.out) = Len(hist.v.replies) + 1
        /\ \A i \in 1..Len(hist.v.out) : IsQuery(i) =>
              /\ hist.v.out[i].to = resolver.v
              /\ hist.v.out[i].msg.question = Some(<<hist.v.orig.question.v[i]>>)
              /\ SubSeq(hist.v.out[i].bytes, 13, Len(hist.v.out[i].bytes))
                    = Question_to_bytes(hist.v.orig.question.v[i])
        /\ hist.v.closed =>
              /\ FinalReply.to = hist.v.client
              /\ FinalReply.msg.header.message_type = "Response"
              /\ FinalReply.msg.header.an_count = Len(hist.v.orig.question.v)
              /\ WireHeader(FinalReply).an_count = Len(hist.v.orig.question.v)
              /\ Count(FinalReply.msg.answer) = Len(hist.v.orig.question.v)

C2_TwoQuestionsRelayed ==
    /\ PlainSession /\ hist.v.closed
    /\ Len(hist.v.orig.question.v) = 2
    /\ \A i \in 1..Len(hist.v.replies) : hist.v.replies[i].some
    /\ Len(hist.v.out) = 3

(* The id, the questions and the destination of a session value *)
Frame(fw) == <<fw.destination, fw.message.header.id, fw.message.question>>

OriginalFrame == <<hist.v.client, hist.v.orig.header.id, hist.v.orig.question>>

(* C3: through forward, add_answer and build_reply the session keeps the id, *)
(* the question list and the destination of the original request; every     *)
(* query carries the original id, and the final reply carries the original  *)
(* id and questions and goes to the original client                         *)
C3_SessionFrame ==
    hist.some =>
        /\ forwarder.some => Frame(forwarder.v) = OriginalFrame
        /\ hist.v.last_add.some =>
              /\ Frame(hist.v.last_add.v.pre) = OriginalFrame
              /\ Frame(hist.v.last_add.v.post) = OriginalFrame
        /\ \A i \in 1..Len(hist.v.out) :
              /\ hist.v.out[i].msg.header.id = hist.v.orig.header.id
              /\ WireHeader(hist.v.out[i]).id = hist.v.orig.header.id
        /\ hist.v.closed =>
              /\ FinalReply.to = hist.v.client
              /\ FinalReply.msg.question = hist.v.orig.question
              /\ SubSeq(FinalReply.bytes, 13,
                        12 + Len(concat_questions(hist.v.orig.question.v)))
                    = concat_questions(hist.v.orig.question.v)

C3_SecondClientAnswered ==
    /\ hist.some /\ hist.v.closed
    /\ hist.v.client = "client2"
    /\ Len(hist.v.replies) = 2
    /\ Count(hist.v.orig.question) = 2

(* C4: every upstream query of a session has header question count 1 with   *)
(* one question serialized, and a header answer count equal to the number   *)
(* of answer records serialized in it                                       *)
C4_QueryCounts ==
    PlainSession =>
        \A i \in 1..Len(hist.v.out) : IsQuery(i) =>
            /\ WireHeader(hist.v.out[i]).qd_count = 1
            /\ Count(hist.v.out[i].msg.question) = 1
            /\ WireHeader(hist.v.out[i]).an_count = Count(hist.v.out[i].msg.answer)

(* C5: the final reply of a session has header question count equal to the *)
(* number of questions serialized and header answer count equal to the     *)
(* number of answers serialized, however the session completed             *)
C5_FinalReplyCounts ==
    (PlainSession /\ hist.v.closed) =>
        /\ WireHeader(FinalReply).qd_count = Count(FinalReply.msg.question)
        /\ WireHeader(FinalReply).an_count = Count(FinalReply.msg.answer)

(* The reply add_answer was last handed: buf holds it until the next receive *)
LastReply == DNSMessage_from_bytes(buf).val

Answers(fw) == IF fw.message.answer.some THEN fw.message.answer.v ELSE <<>>

C6_NoAnswerCompletes ==
    /\ hist.some /\ hist.v.last_add.some
    /\ ~LastReply.answer.some
    /\ Count(hist.v.orig.question) = 2

----------------------------------------------------------------------------
(* Properties of the codec                                                  *)

(* The number of pointers the resolution of the name follows before it     *)
(* ends; a "cycle" name never ends                                          *)
ChainLength(a) == a.n + (IF a.ending = "outside" THEN 1 ELSE 0)

AllDecoded ==
    /\ res.labels.st = "ok"
    /\ res.qname.st = "ok"
    /\ res.question.st = "ok"
    /\ res.record.st = "ok"

LoopError(r) == r.st = "err" /\ r.err = "loop"

AllLoopErrors ==
    /\ LoopError(res.labels)
    /\ LoopError(res.qname)
    /\ LoopError(res.question)
    /\ LoopError(res.record)

(* C7: a name whose resolution follows exactly 5 pointers decodes, and one  *)
(* whose resolution follows 6 or more fails with the compression-loop       *)
(* error, in the question decoder and in the resource-record decoder        *)
C7_JumpBound ==
    status = "done" =>
        /\ (arg.ending # "cycle" /\ ChainLength(arg) = 5) => AllDecoded
        /\ (arg.ending = "cycle" \/ ChainLength(arg) >= 6) => AllLoopErrors

(* Every pointer of the buffer has a target below offset 256, so that its  *)
(* first octet is 192                                                       *)
NearOffsets == BufferSize(arg) < 256

(* The jump limit on names of near offsets: up to 5 pointers followed      *)
(* decode, 6 or more are a compression-loop error                          *)
JumpBoundNearOffsets ==
    (status = "done" /\ NearOffsets) =>
        /\ (arg.ending # "cycle" /\ ChainLength(arg) = 5) => AllDecoded
        /\ (arg.ending = "cycle" \/ ChainLength(arg) >= 6) => AllLoopErrors

(* C8: a pair of octets is a pointer iff the top two bits of the first are *)
(* set, and its offset is then the low six bits of the first followed by   *)
(* the second                                                               *)
C8_PointerRecognition ==
    status = "done" =>
        /\ res.some <=> arg[1] >= 192
        /\ res.some => res.v = (arg[1] % 64) * 256 + arg[2]

RECURSIVE ChainLabels(_, _)
ChainLabels(a, i) ==
    IF i > a.n THEN <<>> ELSE BlockLabels(a, i) \o ChainLabels(a, i + 1)

(* Where a decoder leaves the cursor: past the first pointer, or past the  *)
(* terminating zero of a name without a pointer                            *)
CursorAfterName(a) ==
    Offset(a, 0) + Len(EncodeLabels(BlockLabels(a, 0))) + (IF a.n >= 1 THEN 2 ELSE 1)

NameAsWritten(a) ==
    Ok([name |-> join(ChainLabels(a, 0)), pos |-> CursorAfterName(a)])

(* C9: a name ended by a zero octet decodes to the labels before its first *)
(* pointer followed by the labels at the target, joined with '.', and the  *)
(* cursor is left right after the first pointer, where the type and class  *)
(* are then read; without a pointer it is left past the zero octet         *)
C9_NameWithPointer ==
    (status = "done" /\ arg.ending = "zero" /\ arg.n <= 5) =>
        /\ res.labels = NameAsWritten(arg)
        /\ res.qname = NameAsWritten(arg)
        /\ res.question
             = Ok([q |-> [name |-> join(ChainLabels(arg, 0)), qtype |-> "A",
                          class |-> "IN"],
                   pos |-> CursorAfterName(arg) + 4])
        /\ res.record.st = "ok"
        /\ res.record.val.rr.name = join(ChainLabels(arg, 0))
        /\ res.record.val.rr.atype = "A"
        /\ res.record.val.pos = CursorAfterName(arg) + Len(RecordFields)

(* The same on names of near offsets *)
NameWithPointerNearOffsets ==
    (status = "done" /\ arg.ending = "zero" /\ arg.n <= 5 /\ NearOffsets) =>
        /\ res.labels = NameAsWritten(arg)
        /\ res.qname = NameAsWritten(arg)
        /\ res.question.st = "ok"
        /\ res.question.val.pos = CursorAfterName(arg) + 4
        /\ res.record.st = "ok"
        /\ res.record.val.pos = CursorAfterName(arg) + Len(RecordFields)

(* C10: a header with z in 0..7 survives to_bytes then from_bytes; octet 2 *)
(* is QR<<7 | OPCODE<<3 | AA<<2 | TC<<1 | RD, octet 3 is RA<<7 | Z<<4 |    *)
(* RCODE, the id and the four counts are big-endian 16-bit integers        *)
C10_HeaderRoundTrip ==
    (status = "done" /\ arg.z \in 0..7) =>
        /\ res.back = Ok(arg)
        /\ Len(res.bytes) = 12
        /\ res.bytes[1] * 256 + res.bytes[2] = arg.id
        /\ res.bytes[3] = MessageType_as_u8(arg.message_type) * 128
                          + OpCode_as_u8(arg.op_code) * 8
                          + BoolAsU8(arg.auth_answer) * 4
                          + BoolAsU8(arg.truncation) * 2
                          + BoolAsU8(arg.recursion_desired)
        /\ res.bytes[4] = BoolAsU8(arg.recursion_available) * 128 + arg.z * 16
                          + ResponseCode_as_u8(arg.response_code)
        /\ res.bytes[5] * 256 + res.bytes[6] = arg.qd_count
        /\ res.bytes[7] * 256 + res.bytes[8] = arg.an_count
        /\ res.bytes[9] * 256 + res.bytes[10] = arg.ns_count
        /\ res.bytes[11] * 256 + res.bytes[12] = arg.ar_count
        /\ \A i \in 1..12 : res.bytes[i] \in 0..255

C10_FullHeaderDecoded ==
    /\ status = "done"
    /\ arg.z = 7 /\ arg.id = 4660
    /\ arg.op_code = "CodeCrafters" /\ arg.response_code = "Refused"
    /\ arg.recursion_available /\ arg.auth_answer
    /\ arg.an_count = 256
    /\ res.back.st = "ok"

----------------------------------------------------------------------------
(* Header::build_reply on header values                                     *)

BuildReplyHeader ==
    /\ CodecStep
    /\ res' = Header_build_reply(arg)

SpecReply == HeaderInit /\ [][BuildReplyHeader]_vars

(* C11: build_reply returns a response whose answer count is the input's   *)
(* question count, whose response code is no-error for the opcode query    *)
(* and not-implemented for every other opcode, the reserved 3 included,    *)
(* and whose other fields are the input's                                  *)
C11_HeaderReply ==
    status = "done" =>
        /\ res.message_type = "Response"
        /\ res.an_count = arg.qd_count
        /\ arg.op_code = "Query" => res.response_code = "NoError"
        /\ arg.op_code \in {"IQuery", "Status", "CodeCrafters"}
              => res.response_code = "NotImplemented"
        /\ res.id = arg.id
        /\ res.op_code = arg.op_code
        /\ res.auth_answer = arg.auth_answer
        /\ res.truncation = arg.truncation
        /\ res.recursion_desired = arg.recursion_desired
        /\ res.recursion_available = arg.recursion_available
        /\ res.z = arg.z
        /\ res.qd_count = arg.qd_count
        /\ res.ns_count = arg.ns_count
        /\ res.ar_count = arg.ar_count
        /\ DOMAIN res = DOMAIN arg

C11_ReservedOpcodeReplied ==
    /\ status = "done"
    /\ arg.op_code = "CodeCrafters"
    /\ arg.response_code = "Refused"
    /\ arg.message_type = "Query"
    /\ arg.qd_count = 255 /\ arg.an_count = 256
    /\ res.response_code = "NotImplemented"

----------------------------------------------------------------------------
(* The enum decoders on raw values, directly and inside the decoder of the  *)
(* structure that carries the field                                        *)

MaxCode == 300

EnumValues(kind) ==
    IF kind \in {"opcode", "rcode"} THEN 0..255 ELSE 0..MaxCode \cup {65535}

EnumInputs ==
    UNION {{[kind |-> k, value |-> v] : v \in EnumValues(k)} :
              k \in {"opcode", "rcode", "type", "class"}}

(* try_from of the kind *)
EnumTryFrom(a) ==
    CASE a.kind = "opcode" -> OpCode_try_from(a.value)
      [] a.kind = "rcode" -> ResponseCode_try_from(a.value)
      [] a.kind = "type" -> Type_try_from(a.value)
      [] a.kind = "class" -> Class_try_from(a.value)

(* A header or a question whose field of the kind holds the value *)
EnumCarrier(a) ==
    CASE a.kind = "opcode" -> <<0, 0, a.value * 8, 0, 0, 0, 0, 0, 0, 0, 0, 0>>
      [] a.kind = "rcode" -> <<0, 0, 0, a.value, 0, 0, 0, 0, 0, 0, 0, 0>>
      [] a.kind = "type" -> <<1, 97, 0>> \o u16_to_be_bytes(a.value) \o <<0, 1>>
      [] a.kind = "class" -> <<1, 97, 0, 0, 1>> \o u16_to_be_bytes(a.value)

(* The field of the kind as the structure's decoder returns it; the opcode  *)
(* and response code fields of a header are 4 bits wide                     *)
EnumCarried(a) ==
    CASE a.kind = "opcode" ->
           IF a.value > 15 THEN None
           ELSE Some(Try(Header_from_bytes(EnumCarrier(a)), LAMBDA h : Ok(h.op_code)))
      [] a.kind = "rcode" ->
           IF a.value > 15 THEN None
           ELSE Some(Try(Header_from_bytes(EnumCarrier(a)), LAMBDA h : Ok(h.response_code)))
      [] a.kind = "type" ->
           Some(Try(Question_from_bytes(EnumCarrier(a), 0), LAMBDA r : Ok(r.q.qtype)))
      [] a.kind = "class" ->
           Some(Try(Question_from_bytes(EnumCarrier(a), 0), LAMBDA r : Ok(r.q.class)))

EnumInit ==
    /\ CodecIdle
    /\ status = "input"
    /\ arg \in EnumInputs
    /\ res = None

DecodeEnum ==
    /\ CodecStep
    /\ res' = [direct |-> EnumTryFrom(arg), carried |-> EnumCarried(arg)]

SpecEnum == EnumInit /\ [][DecodeEnum]_vars

(* The values the claim names for each kind *)
KnownValues(kind) ==
    CASE kind = "opcode" -> 0..3
      [] kind = "rcode" -> 0..5
      [] kind = "type" -> 1..16
      [] kind = "class" -> 1..4

(* C12: decoding an opcode, response code, record type or class fails with *)
(* a format error exactly on the values outside 0..3, 0..5, 1..16 and 1..4 *)
(* respectively, distinct known values decode to distinct variants, and    *)
(* opcode 3 decodes to a variant of its own                                *)
C12_EnumDecoding ==
    status = "done" =>
        /\ arg.value \in KnownValues(arg.kind) => res.direct.st = "ok"
        /\ arg.value \notin KnownValues(arg.kind) => res.direct = Err("format")
        /\ res.carried.some => res.carried.v = res.direct
        /\ res.direct.st = "ok" =>
              \A v \in KnownValues(arg.kind) \ {arg.value} :
                  EnumTryFrom([kind |-> arg.kind, value |-> v]) # res.direct

C12_ReservedOpcodeDecoded ==
    /\ status = "done"
    /\ arg = [kind |-> "opcode", value |-> 3]
    /\ res.direct = Ok("CodeCrafters")
    /\ res.carried = Some(Ok("CodeCrafters"))

----------------------------------------------------------------------------
(* Question::to_bytes followed by Question::from_bytes                      *)

MaxLabels == 2

(* Labels of 1, 2 and 63 octets *)
LabelSet == {<<97>>, <<98, 99>>, [i \in 1..63 |-> 120]}

QuestionInputs ==
    [labels : UNION {[1..n -> LabelSet] : n \in 0..MaxLabels},
     qtype : {TypeNames[i] : i \in 1..Len(TypeNames)},
     class : {ClassNames[i] : i \in 1..Len(ClassNames)}]

(* The Question whose name is the labels joined with dots; no label is the  *)
(* root name, the empty string                                              *)
QuestionOf(a) == [name |-> join(a.labels), qtype |-> a.qtype, class |-> a.class]

QuestionInit ==
    /\ CodecIdle
    /\ status = "input"
    /\ arg \in QuestionInputs
    /\ res = None

RoundTripQuestion ==
    /\ CodecStep
    /\ res' = [bytes |-> Question_to_bytes(QuestionOf(arg)),
               back |-> Question_from_bytes(Question_to_bytes(QuestionOf(arg)), 0)]

SpecQuestion == QuestionInit /\ [][RoundTripQuestion]_vars

(* One length octet and the label's octets for each label *)
RECURSIVE LengthPrefixed(_)
LengthPrefixed(labels) ==
    IF Len(labels) = 0 THEN <<>>
    ELSE <<Len(labels[1])>> \o labels[1] \o LengthPrefixed(Tail(labels))

QuestionRoundTrips ==
    /\ res.bytes = LengthPrefixed(arg.labels) \o <<0>>
                     \o u16_to_be_bytes(Type_as_u16(arg.qtype))
                     \o u16_to_be_bytes(Class_as_u16(arg.class))
    /\ res.back = Ok([q |-> QuestionOf(arg), pos |-> Len(res.bytes)])

(* C13: for every name of zero or more non-empty labels, to_bytes emits    *)
(* one length-prefixed label per label, one terminating zero octet and the *)
(* type and class as big-endian 16-bit values, and from_bytes on those     *)
(* octets returns an equal Question with the cursor at their end           *)
C13_QuestionRoundTrip == status = "done" => QuestionRoundTrips

(* The same for the names of at least one label *)
QuestionRoundTripLabelled ==
    status = "done" /\ Len(arg.labels) > 0 => QuestionRoundTrips

----------------------------------------------------------------------------
(* ResourceRecord::from_bytes on records on the wire, then to_bytes and     *)
(* from_bytes again on what decoded                                         *)

MaxData == 6

(* A record on the wire: the labels of its name, its type, class, TTL and   *)
(* declared data length; "cut" leaves the last data octet out of the buffer *)
RecordInputs ==
    {a \in [labels : {<<>>, <<<<97>>>>},
            atype : {1, 2, 16},
            class : {1, 3},
            ttl : {0, 60},
            length : 0..MaxData,
            cut : BOOLEAN] : a.cut => a.length > 0}

RecordData(a) == [i \in 1..(a.length - (IF a.cut THEN 1 ELSE 0)) |-> 10 + i]

RecordBuffer(a) ==
    LengthPrefixed(a.labels) \o <<0>>
    \o u16_to_be_bytes(a.atype) \o u16_to_be_bytes(a.class)
    \o u32_to_be_bytes(a.ttl) \o u16_to_be_bytes(a.length)
    \o RecordData(a)

RecordInit ==
    /\ CodecIdle
    /\ status = "input"
    /\ arg \in RecordInputs
    /\ res = None

(* bytes and back are those of the decoded record, when there is one *)
Reencoded(first) ==
    IF first.st # "ok" THEN [first |-> first, bytes |-> <<>>, back |-> first]
    ELSE [first |-> first,
          bytes |-> ResourceRecord_to_bytes(first.val.rr),
          back |-> ResourceRecord_from_bytes(ResourceRecord_to_bytes(first.val.rr), 0)]

DecodeRecord ==
    /\ CodecStep
    /\ res' = Reencoded(ResourceRecord_from_bytes(RecordBuffer(arg), 0))

SpecRecord == RecordInit /\ [][DecodeRecord]_vars

(* The octets of a record before its data: name, type, class, TTL, length *)
RecordHead(rr) ==
    (IF rr.name = <<>> THEN 0 ELSE Len(rr.name) + 1) + 1 + 2 + 2 + 4 + 2

(* C14: every record that a decode returned is encoded with exactly its    *)
(* declared number of data octets, and decoding that encoding succeeds     *)
(* with an equal record                                                    *)
C14_RecordRoundTrip ==
    status = "done" /\ res.first.st = "ok" =>
        /\ Len(res.bytes) = RecordHead(res.first.val.rr) + res.first.val.rr.length
        /\ res.back.st = "ok"
        /\ res.back.val.rr = res.first.val.rr

(* The same for the address records of declared length 4 with a name of at *)
(* least one label                                                        *)
RecordRoundTripAddress ==
    status = "done" /\ res.first.st = "ok" /\ arg.atype = 1 /\ arg.length = 4
        /\ Len(arg.labels) > 0 =>
        /\ Len(res.bytes) = RecordHead(res.first.val.rr) + res.first.val.rr.length
        /\ res.back.st = "ok"
        /\ res.back.val.rr = res.first.val.rr

(* C15: an address record whose fields and data are all in the buffer      *)
(* decodes only when its declared data length is exactly 4, and with any   *)
(* other length the decode returns a format error                          *)
C15_AddressLength ==
    status = "done" /\ arg.atype = 1 /\ ~arg.cut =>
        /\ arg.length = 4 => res.first.st = "ok"
        /\ arg.length # 4 => res.first = Err("format")

----------------------------------------------------------------------------
(* ResourceRecord::answer_by_type on names and types                        *)

CodecraftersIo == <<99, 111, 100, 101, 99, 114, 97, 102, 116, 101, 114, 115, 46, 105, 111>>

AnotherCodecraftersIo == <<97, 110, 111, 116, 104, 101, 114, 46>> \o CodecraftersIo

(* The two names of the table, a name under one of them, one of them with   *)
(* a trailing dot and in upper case, another name and the root name         *)
AnswerNames ==
    {CodecraftersIo, AnotherCodecraftersIo,
     <<120, 46>> \o CodecraftersIo,
     CodecraftersIo \o <<46>>,
     <<67, 79, 68, 69, 67, 82, 65, 70, 84, 69, 82, 83, 46, 73, 79>>,
     <<97>>, <<>>}

AnswerInputs == [name : AnswerNames, qtype : {TypeNames[i] : i \in 1..Len(TypeNames)}]

AnswerInit ==
    /\ CodecIdle
    /\ status = "input"
    /\ arg \in AnswerInputs
    /\ res = None

SynthesizeAnswer ==
    /\ CodecStep
    /\ res' = ResourceRecord_answer_by_type(arg.qtype, arg.name)

SpecAnswer == AnswerInit /\ [][SynthesizeAnswer]_vars

(* C16: the answer made for a question of type A has the question's name,  *)
(* type A, class IN, TTL 60, data length 4 and as data the address the     *)
(* table holds for the name, or 8.8.8.8 when the table has no such name    *)
C16_AnswerSynthesis ==
    status = "done" /\ arg.qtype = "A" =>
        res = Ok([name |-> arg.name, atype |-> "A", class |-> "IN", ttl |-> 60,
                  length |-> 4,
                  data |-> Data_IP(CASE arg.name = CodecraftersIo -> <<8, 8, 8, 8>>
                                     [] arg.name = AnotherCodecraftersIo -> <<1, 1, 1, 1>>
                                     [] OTHER -> <<8, 8, 8, 8>>)])

C16_TableAddressAnswered ==
    /\ status = "done"
    /\ arg = [name |-> AnotherCodecraftersIo, qtype |-> "A"]
    /\ res.st = "ok"
    /\ res.val.data = Data_IP(<<1, 1, 1, 1>>)

----------------------------------------------------------------------------
(* DNSMessage::from_bytes on message buffers                                *)

MaxSection == 2

(* The i-th question on the wire: the first spells the name "a" at offset   *)
(* 12, the others point to it                                               *)
WireQuestion(i) ==
    (IF i = 1 THEN <<1, 97, 0>> ELSE <<192, 12>>) \o <<0, 1, 0, 1 + (i % 4)>>

(* The i-th answer on the wire: an address record whose name points to      *)
(* offset 12                                                                *)
WireAnswer(i) == <<192, 12, 0, 1, 0, 1, 0, 0, 0, 60, 0, 4, 76, 76, 21, i>>

RECURSIVE WireQuestions(_)
WireQuestions(n) == IF n = 0 THEN <<>> ELSE WireQuestions(n - 1) \o WireQuestion(n)

RECURSIVE WireAnswers(_)
WireAnswers(n) == IF n = 0 THEN <<>> ELSE WireAnswers(n - 1) \o WireAnswer(n)

(* A buffer: a header announcing qd questions, an answers, ns authority and *)
(* ar additional records, followed by nq questions and na answers, and of   *)
(* the whole the first keep octets                                          *)
MessageInputs ==
    [qd : 0..MaxSection, an : 0..MaxSection, ns : {0, 1}, ar : {0, 7},
     nq : 0..MaxSection, na : 0..MaxSection, keep : {0, 11, 12, BufSize}]

MessageWhole(a) ==
    Header_to_bytes([Header_default EXCEPT !.id = 1234, !.qd_count = a.qd,
                                           !.an_count = a.an, !.ns_count = a.ns,
                                           !.ar_count = a.ar])
    \o WireQuestions(a.nq) \o WireAnswers(a.na)

MessageBuffer(a) ==
    SubSeq(MessageWhole(a), 1,
           IF a.keep < Len(MessageWhole(a)) THEN a.keep ELSE Len(MessageWhole(a)))

MessageInit ==
    /\ CodecIdle
    /\ status = "input"
    /\ arg \in MessageInputs
    /\ res = None

DecodeMessage ==
    /\ CodecStep
    /\ res' = DNSMessage_from_bytes(MessageBuffer(arg))

SpecMessage == MessageInit /\ [][DecodeMessage]_vars

(* The cursor after i questions, and after all questions and j answers,     *)
(* each decoded where the one before it ended, the first at offset 12;      *)
(* -1 when one of them does not decode                                      *)
RECURSIVE CursorAfterQuestions(_, _)
CursorAfterQuestions(buffer, i) ==
    IF i = 0 THEN 12
    ELSE LET before == CursorAfterQuestions(buffer, i - 1) IN
         IF before < 0 \/ Question_from_bytes(buffer, before).st # "ok" THEN -1
         ELSE Question_from_bytes(buffer, before).val.pos

RECURSIVE CursorAfterAnswers(_, _, _)
CursorAfterAnswers(buffer, qd, j) ==
    IF j = 0 THEN CursorAfterQuestions(buffer, qd)
    ELSE LET before == CursorAfterAnswers(buffer, qd, j - 1) IN
         IF before < 0 \/ ResourceRecord_from_bytes(buffer, before).st # "ok" THEN -1
         ELSE ResourceRecord_from_bytes(buffer, before).val.pos

Items(opt) == IF opt.some THEN opt.v ELSE <<>>

(* C17: from_bytes returns a format error for every buffer of fewer than   *)
(* 12 octets; a message it returns holds exactly qd_count questions and    *)
(* an_count answers, each decoded where the one before it ended, the first *)
(* question at offset 12 and the first answer after the last question;     *)
(* the counts of authority and additional records change nothing           *)
C17_MessageDecoding ==
    status = "done" =>
        LET buffer == MessageBuffer(arg) IN
        /\ Len(buffer) < 12 => res = Err("format")
        /\ res.st = "ok" =>
              /\ res.val.header.qd_count = arg.qd /\ res.val.header.an_count = arg.an
              /\ res.val.header.ns_count = arg.ns /\ res.val.header.ar_count = arg.ar
              /\ Len(Items(res.val.question)) = arg.qd
              /\ Len(Items(res.val.answer)) = arg.an
              /\ \A i \in 1..arg.qd :
                    Items(res.val.question)[i] =
                        Question_from_bytes(buffer, CursorAfterQuestions(buffer, i - 1)).val.q
              /\ \A j \in 1..arg.an :
                    Items(res.val.answer)[j] =
                        ResourceRecord_from_bytes(buffer,
                            CursorAfterAnswers(buffer, arg.qd, j - 1)).val.rr
        /\ Len(buffer) >= 12 /\ CursorAfterAnswers(buffer, arg.qd, arg.an) >= 0
              => res.st = "ok"

C17_SectionsDecoded ==
    /\ status = "done"
    /\ arg.qd = 2 /\ arg.an = 2 /\ arg.nq = 2 /\ arg.na = 2
    /\ arg.ns = 1 /\ arg.ar = 7 /\ arg.keep = BufSize
    /\ res.st = "ok"
    /\ Len(res.val.question.v) = 2 /\ Len(res.val.answer.v) = 2
    /\ res.val.answer.v[2].data = Data_IP(<<76, 76, 21, 2>>)

----------------------------------------------------------------------------
(* Properties of the receive loop                                           *)

(* C18: the receive loop ends only on a failure of the transport, the      *)
(* receive or the send; no datagram received, malformed or asking for an   *)
(* unsupported record type, ends it                                        *)
C18_PacketsKeepLoop == status \in {"running", "stopped", "transport"}

----------------------------------------------------------------------------
(* Properties of the name decoders                                          *)

(* C19: every pointer followed counts toward the jump counter, the first   *)
(* included, and decoding fails exactly when the counter exceeds 5: among  *)
(* the names whose pointers have the first octet 192, one that follows 5   *)
(* pointers or fewer to a terminating zero decodes and one that follows 6  *)
(* or more fails with the compression-loop error                           *)
C19_EveryPointerCounts ==
    (status = "done" /\ NearOffsets) =>
        /\ (arg.ending = "zero" /\ arg.n <= 5) => AllDecoded
        /\ (arg.ending = "cycle" \/ ChainLength(arg) >= 6) => AllLoopErrors

C19_SixPointersRejected ==
    /\ status = "done"
    /\ NearOffsets
    /\ arg.ending = "zero" /\ arg.n = 6
    /\ AllLoopErrors

(* C19 as stated: the first pointer does not count, so that a name         *)
(* following a first pointer and 5 further ones decodes and one following  *)
(* a first pointer and 6 further ones fails                                *)
C19_FirstPointerFree ==
    (status = "done" /\ NearOffsets /\ arg.ending = "zero") =>
        /\ arg.n = 6 => AllDecoded
        /\ arg.n = 7 => AllLoopErrors

(* C20: a name whose decoding has to read an octet outside the buffer, its *)
(* last pointer aiming at the end of the buffer or its labels reaching the *)
(* end of the buffer with no terminating zero, is rejected with a format   *)
(* error and yields no name                                                *)
C20_OutsideRejected ==
    (status = "done" /\ arg.ending \in {"open", "outside"} /\ ChainLength(arg) <= 5) =>
        /\ res.labels = Err("format")
        /\ res.qname = Err("format")

----------------------------------------------------------------------------
(* The while loop of parse_labels, one iteration at a time, on every buffer *)
(* of at most MaxBuf octets and from every start offset                     *)

MaxBuf == 4

(* The octets of the buffers: the end of a name, label lengths and pointer  *)
(* targets 1 and 2, and the first octet of a pointer                        *)
LoopOctets == {0, 1, 2, 192}

LoopInputs ==
    UNION {{[buffer |-> b, start |-> s] : b \in [1..n -> LoopOctets], s \in 0..n} :
              n \in 0..MaxBuf}

(* jumps += 1 without the increment *)
jumps_incr_none(jumps) == jumps

(* jumps += 1 *)
jumps_incr(jumps) == jumps + 1

(* A Result<[name, pos]> as fields of one shape: no name is the empty       *)
(* string and no position is -1                                             *)
Returned(result) ==
    [st |-> result.st, err |-> result.err,
     name |-> IF result.st = "ok" THEN result.val.name ELSE <<>>,
     pos |-> IF result.st = "ok" THEN result.val.pos ELSE -1]

NotReturned == [st |-> "none", err |-> "", name |-> <<>>, pos |-> -1]

(* The locals of parse_labels before the loop; next_pointer is -1 for None  *)
(* and out is the value returned                                            *)
LoopInit ==
    /\ CodecIdle
    /\ status = "loop"
    /\ arg \in LoopInputs
    /\ res = [current |-> arg.start, next_pointer |-> -1, jumps |-> 0,
              labels |-> <<>>, out |-> NotReturned]

(* The loop is left: with the name after a break or at the end of the       *)
(* buffer, or with the error a ? or the jump limit returns                  *)
LoopReturn(current, result) ==
    /\ status' = "done"
    /\ res' = [res EXCEPT !.current = current, !.out = Returned(result)]

LoopName(current) ==
    LoopReturn(current,
               Ok([name |-> join(res.labels),
                   pos |-> IF res.next_pointer >= 0 THEN res.next_pointer
                           ELSE current]))

LoopPointer(offset) ==
    IF jumps_incr(res.jumps) > 5 THEN LoopReturn(res.current, Err("loop"))
    ELSE /\ status' = "loop"
         /\ res' = [res EXCEPT !.current = offset,
                               !.jumps = jumps_incr(res.jumps),
                               !.next_pointer = IF res.jumps = 0
                                                THEN res.current + 2
                                                ELSE res.next_pointer]

LoopLabel(len) ==
    LET label == RawMessage_get_range(arg.buffer, res.current + 1,
                                      res.current + 1 + len)
    IN  IF label.st # "ok" \/ ~from_utf8_ok(label.val)
        THEN LoopReturn(res.current + 1, Err("format"))
        ELSE /\ status' = "loop"
             /\ res' = [res EXCEPT !.current = res.current + 1 + len,
                                   !.labels = Append(res.labels, label.val)]

(* One evaluation of the loop condition and of the body *)
LoopIteration ==
    /\ status = "loop"
    /\ UNCHANGED <<buf, forwarder, resolver, sent, npackets, hist, arg>>
    /\ LET len_byte == RawMessage_get(arg.buffer, res.current)
           next == RawMessage_get(arg.buffer, res.current + 1)
       IN  IF len_byte.st # "ok" THEN LoopName(res.current)
           ELSE IF len_byte.val = 0 THEN LoopName(res.current + 1)
           ELSE IF next.st # "ok" THEN LoopReturn(res.current, Err("format"))
           ELSE IF pointer(len_byte.val, next.val).some
                THEN LoopPointer(pointer(len_byte.val, next.val).v)
                ELSE LoopLabel(len_byte.val)

SpecLoop == LoopInit /\ [][LoopIteration]_vars

(* The thread that runs the decoder keeps running *)
SpecLoopFair == SpecLoop /\ WF_vars(LoopIteration)

(* The value the loop returns is that of parse_labels and of the name part  *)
(* of Question::from_bytes                                                  *)
LoopAsDecoders ==
    status = "done" =>
        /\ res.out = Returned(parse_labels(arg.buffer, arg.start))
        /\ res.out = Returned(Question_parse_name(arg.buffer, arg.start))

(* An iteration that stays in the loop has consumed a label, the position   *)
(* strictly advanced, or has followed a pointer within the jump limit       *)
LoopProgress ==
    (status = "loop" /\ status' = "loop") =>
        \/ /\ Len(res'.labels) = Len(res.labels) + 1
           /\ res'.current > res.current
           /\ res'.jumps = res.jumps
        \/ /\ res'.labels = res.labels
           /\ res'.jumps = res.jumps + 1
           /\ res'.jumps <= 5

(* The name starts with a pointer to itself *)
SelfReferential ==
    /\ arg.start + 2 <= Len(arg.buffer)
    /\ arg.buffer[arg.start + 1] = 192
    /\ arg.buffer[arg.start + 2] = arg.start

(* C21: name decoding ends on every buffer and from every start offset;    *)
(* each iteration that does not end it consumes a label, advancing the     *)
(* read position, or follows a pointer within the jump limit, and a chain  *)
(* of pointers that comes back to itself ends in the compression-loop error *)
C21_NameDecodingTerminates ==
    /\ <>(status = "done")
    /\ [][LoopProgress]_vars
    /\ [](status = "done" /\ SelfReferential => res.out = Returned(Err("loop")))

C21_CycleEnded ==
    /\ status = "done"
    /\ arg = [buffer |-> <<1, 1, 192, 0>>, start |-> 0]
    /\ res.out = Returned(Err("loop"))
    /\ Len(res.labels) = 6

----------------------------------------------------------------------------
(* Properties of the relay session in the receive loop                      *)

(* The one session slot holds the session of the history, open until its   *)
(* final reply                                                             *)
OneSession ==
    /\ forwarder.some <=> (hist.some /\ ~hist.v.closed)
    /\ forwarder.some => forwarder.v.destination = hist.v.client

(* A session appears only in an iteration that received a packet with no   *)
(* session open, and it is the one create_forwarder makes of that packet   *)
CreatedWhenNoneOpen ==
    (forwarder'.some /\ ~forwarder.some) =>
        /\ npackets' = npackets + 1
        /\ create_forwarder(buf', hist'.v.client) = Ok(forwarder'.v)
        /\ hist'.v.replies = <<>>

(* A packet received while a session is open goes to add_answer of that    *)
(* session, and the session that stays is the one add_answer left          *)
RoutedToOpenSession ==
    (forwarder.some /\ npackets' = npackets + 1 /\ status' = "running") =>
        /\ hist'.v.last_add.some
        /\ hist'.v.last_add.v.pre = forwarder.v
        /\ Forwarder_add_answer(forwarder.v, buf').st = "ok"
        /\ hist'.v.last_add.v.post = Forwarder_add_answer(forwarder.v, buf').val.fw
        /\ hist'.v.client = hist.v.client /\ hist'.v.orig = hist.v.orig
        /\ forwarder'.some => forwarder'.v = hist'.v.last_add.v.post

(* The session goes exactly in the iteration that sends its final reply *)
DiscardedWithFinalReply ==
    (forwarder.some /\ ~forwarder'.some)
        <=> /\ forwarder.some /\ hist'.some /\ hist'.v.closed
            /\ sent'.some
            /\ sent'.v.to = forwarder.v.destination
            /\ sent'.v = hist'.v.out[Len(hist'.v.out)]
            /\ sent'.v.msg.header.message_type = "Response"

(* C22: with a resolver configured there is at most one relay session; a   *)
(* session is created only by a packet that arrives while none is open, a  *)
(* packet that arrives while one is open goes to that session's add_answer *)
(* whatever its source and transaction id, and the session is discarded    *)
(* exactly when its final reply is sent                                    *)
C22_SingleSession ==
    /\ [](resolver.some => OneSession)
    /\ [][resolver.some => /\ CreatedWhenNoneOpen
                           /\ RoutedToOpenSession
                           /\ DiscardedWithFinalReply]_vars

C22_ForeignPacketIngested ==
    /\ resolver.some /\ forwarder.some /\ hist.some
    /\ hist.v.last_add.some
    /\ hist.v.last_add.v.source \in ClientAddrs \ {hist.v.client}
    /\ hist.v.last_add.v.id # hist.v.orig.header.id
    /\ Len(Answers(hist.v.last_add.v.post)) = Len(Answers(hist.v.last_add.v.pre)) + 1

----------------------------------------------------------------------------
(* Properties of the completion of a relay session                          *)

(* A session of a request of N >= 1 questions and no answer is open *)
PlainOpen == resolver.some /\ forwarder.some /\ PlainSession

(* The session is open in the running loop with k replies handled: its      *)
(* query k + 1 is the last packet sent for it                               *)
Pending(k) == PlainOpen /\ status = "running" /\ Len(hist.v.replies) = k

(* Reply k + 1 of the session has been received, decoded by add_answer and  *)
(* followed by the packet the loop sends next                               *)
Followed(k) == hist.some /\ Len(hist.v.replies) > k

(* Every query forwarded is eventually followed by a decodable upstream     *)
(* reply                                                                    *)
RepliesArrive == \A k \in 0..MaxQuestions : Pending(k) ~> Followed(k)

(* The final reply of the session has gone to its client and the session is *)
(* discarded                                                                *)
PlainCompleted ==
    /\ hist.some /\ hist.v.closed /\ ~forwarder.some
    /\ FinalReply.to = hist.v.client
    /\ FinalReply.msg.header.message_type = "Response"

(* An open session has handled fewer replies than its request has          *)
(* questions: the N-th reply handled completes it                           *)
PendingBelowCount ==
    PlainOpen => Len(hist.v.replies) < Count(hist.v.orig.question)

(* While the session is open, a decodable packet does not end the loop *)
DecodableKeepsLoop ==
    (PlainOpen /\ npackets' = npackets + 1 /\ DNSMessage_from_bytes(buf').st = "ok")
        => status' \in {"running", "transport"}

(* While the session is open nothing is sent and nothing of the session     *)
(* changes unless a packet is received: no step is a timeout or a retry     *)
NoTimeoutStep ==
    (PlainOpen /\ npackets' = npackets)
        => /\ forwarder' = forwarder
           /\ hist' = hist
           /\ ~sent'.some

(* C23: a session created from a request of N >= 1 questions and answer    *)
(* count 0 is eventually completed, its final reply sent to its client and *)
(* the session discarded, if every query forwarded is eventually followed  *)
(* by a decodable upstream reply; the session is open for fewer than N     *)
(* replies, a decodable packet does not end its loop, and the session      *)
(* changes only when a packet is received, there being no timeout and no   *)
(* retry                                                                   *)
C23_SessionCompletes ==
    /\ RepliesArrive => (PlainOpen ~> PlainCompleted)
    /\ []PendingBelowCount
    /\ [][DecodableKeepsLoop]_vars
    /\ [][NoTimeoutStep]_vars

C23_TwoQuestionsCompleted ==
    /\ status = "running"
    /\ PlainSession /\ PlainCompleted
    /\ Count(hist.v.orig.question) = 2
    /\ Len(hist.v.replies) = 2
    /\ npackets = 3

(* The session completes whether or not replies arrive *)
SessionCompletesAlone == PlainOpen ~> PlainCompleted

----------------------------------------------------------------------------
(* Properties of Forwarder::forward in the receive loop                     *)

(* The lookup of forward: with a question list, the number of answers is   *)
(* an index into it                                                        *)
IndexValid(fw) ==
    fw.message.question.some =>
        DNSMessage_answers(fw.message) < Len(fw.message.question.v)

(* forward on the session create_forwarder has made of the packet received *)
ForwardOnCreated ==
    (~forwarder.some /\ npackets' = npackets + 1
        /\ create_forwarder(buf', "client1").st = "ok")
        => /\ IndexValid(create_forwarder(buf', "client1").val)
           /\ status' # "panic"

(* forward on the session add_answer has left incomplete *)
ForwardOnAdvanced ==
    (forwarder.some /\ npackets' = npackets + 1
        /\ Forwarder_add_answer(forwarder.v, buf').st = "ok"
        /\ ~Forwarder_add_answer(forwarder.v, buf').val.complete)
        => /\ IndexValid(Forwarder_add_answer(forwarder.v, buf').val.fw)
           /\ status' # "panic"

(* C24: whenever the loop calls forward, on a session just created from a  *)
(* decodable request, one with a non-zero answer count included, or on a   *)
(* session that add_answer left incomplete, the number of answers          *)
(* collected is a valid index into the session's questions and forward     *)
(* does not abort                                                          *)
C24_ForwardIndexValid ==
    [][resolver.some => ForwardOnCreated /\ ForwardOnAdvanced]_vars

====
